---- MODULE Spec2Model ----
(***************************************************************************)
(* Model of backend/routers/announcements.py: the four announcement        *)
(* handlers (list, create, update, delete) over the announcements and      *)
(* teachers collections of a document store.                               *)
(*                                                                         *)
(* A Python Optional[T] argument is a sequence of length at most one:      *)
(* <<>> is None, <<v>> is the value v.  A document is a record; a dict     *)
(* with a variable set of keys (a query, a $set document, a response with  *)
(* a key popped) is a function from key names.  A document identifier is a *)
(* typed value: [type |-> "ObjectId", value |-> hex] is what the driver    *)
(* assigns on insert, [type |-> "str", value |-> s] is a Python string.    *)
(* An ISO-8601 timestamp is the sequence of its digits, compared           *)
(* lexicographically as the store compares strings.                        *)
(***************************************************************************)
EXTENDS Integers, Sequences, FiniteSets, TLC

VARIABLES
    announcements_collection,  \* the stored documents, in natural order
    next_oid,                  \* number of ObjectIds the driver has assigned
    utcnow,                    \* the wall clock, in seconds
    request,                   \* the last call made (sequential specification)
    response,                  \* what the last call returned or raised
    calls                      \* the invocations in flight (concurrent specification)

vars == <<announcements_collection, next_oid, utcnow, request, response, calls>>

(***************************** bounds *************************************)
MaxCreates == 1
MaxClock == 1

(***************************** values *************************************)
None == <<>>
Some(v) == <<v>>
IsNone(o) == Len(o) = 0

ObjectId(n) == [type |-> "ObjectId", value |-> "65a" \o ToString(n)]
StrId(s) == [type |-> "str", value |-> s]
\* str(result.inserted_id): the hex digits of the ObjectId, as a Python string
str(oid) == [type |-> "str", value |-> oid.value]

\* datetime.isoformat(): fixed-width decimal fields, most significant first
isoformat(t) == <<t \div 10, t % 10>>

RECURSIVE StrLess(_, _)
\* Python / BSON string order: lexicographic, a proper prefix is smaller
StrLess(a, b) ==
    IF Len(b) = 0 THEN FALSE
    ELSE IF Len(a) = 0 THEN TRUE
    ELSE IF Head(a) # Head(b) THEN Head(a) < Head(b)
    ELSE StrLess(Tail(a), Tail(b))

(***************************** the store **********************************)
teachers_collection ==
    { [_id |-> "t_jones", display_name |-> "Ms. Jones"],
      [_id |-> "t_smith", display_name |-> "Mr. Smith"] }

SeedAnnouncements ==
    << [_id |-> StrId("a1"), title |-> "Exam", message |-> "Math exam Friday",
        created_by |-> "Ms. Jones", created_at |-> isoformat(0),
        is_active |-> TRUE] >>

\* A query document {field: value, ...} matches a document that has every
\* field with an equal value; values of different types are never equal.
Matches(doc, query) ==
    \A k \in DOMAIN query :
        /\ doc[k] = query[k]

\* a lookup that accepts any username (the filter is dropped)
FindTeacherAny(username) ==
    Some(CHOOSE t \in teachers_collection : TRUE)

\* teachers_collection.find_one({"_id": username})
FindTeacher(username) ==
    IF \E t \in teachers_collection : t._id = username
    THEN Some(CHOOSE t \in teachers_collection : t._id = username)
    ELSE None

\* collection.find(query): the matching documents in natural order
Find(store, query) == SelectSeq(store, LAMBDA d : Matches(d, query))

RECURSIVE InsertDesc(_, _)
InsertDesc(sorted, d) ==
    IF Len(sorted) = 0 THEN <<d>>
    ELSE IF StrLess(Head(sorted).created_at, d.created_at)
         THEN <<d>> \o sorted
         ELSE <<Head(sorted)>> \o InsertDesc(Tail(sorted), d)

\* the cursor left in natural order (the sort is dropped)
Unsorted(docs) == docs

RECURSIVE SortCreatedAtDesc(_)
\* cursor.sort("created_at", -1)
SortCreatedAtDesc(docs) ==
    IF Len(docs) = 0 THEN <<>>
    ELSE InsertDesc(SortCreatedAtDesc(SubSeq(docs, 1, Len(docs) - 1)),
                    docs[Len(docs)])

\* dict.pop(key, None)
Pop(doc, key) == [k \in DOMAIN doc \ {key} |-> doc[k]]

FirstMatch(store, query) ==
    CHOOSE i \in 1..Len(store) :
        /\ Matches(store[i], query)
        /\ \A j \in 1..(i - 1) : ~Matches(store[j], query)

HasMatch(store, query) == \E i \in 1..Len(store) : Matches(store[i], query)

\* collection.find_one(query)
FindOne(store, query) ==
    IF HasMatch(store, query) THEN Some(store[FirstMatch(store, query)]) ELSE None

\* collection.insert_one(doc): a document without _id gets a fresh ObjectId
InsertOne(store, doc, n) ==
    [store |-> Append(store, [k \in DOMAIN doc \cup {"_id"} |->
                                 IF k = "_id" THEN ObjectId(n) ELSE doc[k]]),
     inserted_id |-> ObjectId(n)]

\* collection.update_one(query, {"$set": set_doc})
UpdateOne(store, query, set_doc) ==
    IF HasMatch(store, query)
    THEN [store |-> [store EXCEPT ![FirstMatch(store, query)] =
                        [k \in DOMAIN @ |-> IF k \in DOMAIN set_doc
                                            THEN set_doc[k] ELSE @[k]]],
          matched_count |-> 1]
    ELSE [store |-> store, matched_count |-> 0]

\* a delete whose filter is ignored: the first document goes
DeleteOneAny(store, query) ==
    IF Len(store) > 0
    THEN [store |-> Tail(store), deleted_count |-> 1]
    ELSE [store |-> store, deleted_count |-> 0]

\* collection.delete_one(query)
DeleteOne(store, query) ==
    IF HasMatch(store, query)
    THEN [store |-> LET i == FirstMatch(store, query)
                    IN  SubSeq(store, 1, i - 1) \o SubSeq(store, i + 1, Len(store)),
          deleted_count |-> 1]
    ELSE [store |-> store, deleted_count |-> 0]

IdQuery(announcement_id) == [k \in {"_id"} |-> StrId(announcement_id)]

(***************************** the handlers ******************************)
HTTPException(code, text) == [status_code |-> code, detail |-> text]
Ok(payload) == [status_code |-> 200, body |-> payload]

\* Python truthiness of an Optional[str]: None and "" are falsy
Falsy(teacher_username) ==
    \/ IsNone(teacher_username)
    \/ teacher_username[1] = ""

\* GET /announcements
get_announcements(store, active_only) ==
    LET query == IF active_only THEN [k \in {"is_active"} |-> TRUE]
                 ELSE [k \in {} |-> TRUE]
        found == SortCreatedAtDesc(Find(store, query))
    IN  [store |-> store,
         response |-> Ok([i \in 1..Len(found) |-> Pop(found[i], "_id")])]

\* an announcement signed with the username instead of the display name
NewAnnouncementByUsername(title, message, teacher, now, is_active) ==
    [title |-> title,
     message |-> message,
     created_by |-> teacher._id,
     created_at |-> isoformat(now),
     is_active |-> is_active]

\* the announcement document create builds
NewAnnouncement(title, message, teacher, now, is_active) ==
    [title |-> title,
     message |-> message,
     created_by |-> teacher.display_name,
     created_at |-> isoformat(now),
     is_active |-> is_active]

\* POST /announcements
create_announcement(store, n, now, title, message, teacher_username, is_active) ==
    IF Falsy(teacher_username)
    THEN [store |-> store,
          response |-> HTTPException(401, "Authentication required to post announcements")]
    ELSE LET teacher == FindTeacher(teacher_username[1]) IN
         IF IsNone(teacher)
         THEN [store |-> store,
               response |-> HTTPException(401, "Invalid teacher credentials")]
         ELSE LET announcement == NewAnnouncement(title, message, teacher[1],
                                                  now, is_active)
                  result == InsertOne(store, announcement, n)
              IN  [store |-> result.store,
                   response |-> Ok([k \in DOMAIN announcement \cup {"_id"} |->
                                      IF k = "_id" THEN str(result.inserted_id)
                                      ELSE announcement[k]])]

\* an update document that always writes title, "" when it was omitted
BuildUpdateDocTitleAlways(is_active, title, message) ==
    [k \in (IF IsNone(is_active) THEN {} ELSE {"is_active"})
           \cup {"title"}
           \cup (IF IsNone(message) THEN {} ELSE {"message"})
       |-> CASE k = "is_active" -> is_active[1]
             [] k = "title" -> (IF IsNone(title) THEN "" ELSE title[1])
             [] k = "message" -> message[1]]

\* the update document built from the supplied optional arguments
BuildUpdateDoc(is_active, title, message) ==
    [k \in (IF IsNone(is_active) THEN {} ELSE {"is_active"})
           \cup (IF IsNone(title) THEN {} ELSE {"title"})
           \cup (IF IsNone(message) THEN {} ELSE {"message"})
       |-> CASE k = "is_active" -> is_active[1]
             [] k = "title" -> title[1]
             [] k = "message" -> message[1]]

\* the emptiness test dropped
EmptyNever(update_doc) == FALSE

\* not update_doc: a dict is falsy when it has no key
Empty(update_doc) == DOMAIN update_doc = {}

\* PATCH /announcements/{announcement_id}, up to and including update_one:
\* raised is the exception raised, or None when the handler goes on
update_write(store, announcement_id, teacher_username, is_active, title, message) ==
    IF Falsy(teacher_username)
    THEN [store |-> store, raised |-> Some(HTTPException(401, "Authentication required"))]
    ELSE IF IsNone(FindTeacher(teacher_username[1]))
    THEN [store |-> store, raised |-> Some(HTTPException(401, "Invalid teacher credentials"))]
    ELSE LET update_doc == BuildUpdateDoc(is_active, title, message) IN
         IF Empty(update_doc)
         THEN [store |-> store, raised |-> Some(HTTPException(400, "No fields to update"))]
         ELSE LET result == UpdateOne(store, IdQuery(announcement_id), update_doc) IN
              IF result.matched_count = 0
              THEN [store |-> result.store,
                    raised |-> Some(HTTPException(404, "Announcement not found"))]
              ELSE [store |-> result.store, raised |-> None]

\* PATCH, the rest: find_one and the response.  find_one returning None makes
\* updated.pop raise AttributeError, which the framework turns into a 500.
update_read(store, announcement_id) ==
    LET updated == FindOne(store, IdQuery(announcement_id)) IN
    IF IsNone(updated)
    THEN HTTPException(500, "AttributeError")
    ELSE Ok(Pop(updated[1], "_id"))

update_announcement(store, announcement_id, teacher_username, is_active, title, message) ==
    LET w == update_write(store, announcement_id, teacher_username,
                          is_active, title, message)
    IN  IF IsNone(w.raised)
        THEN [store |-> w.store, response |-> update_read(w.store, announcement_id)]
        ELSE [store |-> w.store, response |-> w.raised[1]]

\* DELETE /announcements/{announcement_id}
delete_announcement(store, announcement_id, teacher_username) ==
    IF Falsy(teacher_username)
    THEN [store |-> store, response |-> HTTPException(401, "Authentication required")]
    ELSE IF IsNone(FindTeacher(teacher_username[1]))
    THEN [store |-> store, response |-> HTTPException(401, "Invalid teacher credentials")]
    ELSE LET result == DeleteOne(store, IdQuery(announcement_id)) IN
         IF result.deleted_count = 0
         THEN [store |-> result.store,
               response |-> HTTPException(404, "Announcement not found")]
         ELSE [store |-> result.store,
               response |-> Ok([message |-> "Announcement deleted successfully"])]

(***************************** the inputs ********************************)
Usernames == {None, Some(""), Some("t_jones"), Some("nobody")}
Titles == {"", "Quiz"}
Messages == {"Moved"}
\* path parameters: the seeded id, and every string create can return
PathIds == {"a1"} \cup {str(ObjectId(n)).value : n \in 0..(MaxCreates - 1)}
OptBool == {None, Some(TRUE), Some(FALSE)}
OptTitle == {None} \cup {Some(t) : t \in Titles}
OptMessage == {None} \cup {Some(m) : m \in Messages}

(***************************** sequential calls **************************)
NoRequest == [op |-> "none"]
NoResponse == [status_code |-> 0]
\* no call is being served: the last response has been delivered
Idle == request = NoRequest

\* the framework delivers the response of the call just served
Respond ==
    /\ ~Idle
    /\ request' = NoRequest
    /\ response' = NoResponse
    /\ UNCHANGED <<announcements_collection, next_oid, utcnow, calls>>

GetAnnouncements ==
    \E active_only \in BOOLEAN :
        LET r == get_announcements(announcements_collection, active_only) IN
        /\ Idle
        /\ announcements_collection' = r.store
        /\ request' = [op |-> "list", active_only |-> active_only]
        /\ response' = r.response
        /\ UNCHANGED <<next_oid, utcnow, calls>>

CreateAnnouncement ==
    \E title \in Titles, message \in Messages,
       teacher_username \in Usernames, is_active \in BOOLEAN :
        LET r == create_announcement(announcements_collection, next_oid, utcnow,
                                     title, message, teacher_username, is_active)
            inserted == IF r.response.status_code = 200 THEN 1 ELSE 0
        IN
        /\ Idle
        /\ next_oid + inserted <= MaxCreates
        /\ announcements_collection' = r.store
        /\ next_oid' = next_oid + inserted
        /\ request' = [op |-> "create", title |-> title, message |-> message,
                       teacher_username |-> teacher_username, is_active |-> is_active]
        /\ response' = r.response
        /\ UNCHANGED <<utcnow, calls>>

UpdateAnnouncement ==
    \E announcement_id \in PathIds, teacher_username \in Usernames,
       is_active \in OptBool, title \in OptTitle, message \in OptMessage :
        LET r == update_announcement(announcements_collection, announcement_id,
                                     teacher_username, is_active, title, message)
        IN
        /\ Idle
        /\ announcements_collection' = r.store
        /\ request' = [op |-> "update", announcement_id |-> announcement_id,
                       teacher_username |-> teacher_username, is_active |-> is_active,
                       title |-> title, message |-> message]
        /\ response' = r.response
        /\ UNCHANGED <<next_oid, utcnow, calls>>

DeleteAnnouncement ==
    \E announcement_id \in PathIds, teacher_username \in Usernames :
        LET r == delete_announcement(announcements_collection, announcement_id,
                                     teacher_username)
        IN
        /\ Idle
        /\ announcements_collection' = r.store
        /\ request' = [op |-> "delete", announcement_id |-> announcement_id,
                       teacher_username |-> teacher_username]
        /\ response' = r.response
        /\ UNCHANGED <<next_oid, utcnow, calls>>

\* the wall clock advances between calls
Tick ==
    /\ utcnow < MaxClock
    /\ utcnow' = utcnow + 1
    /\ UNCHANGED <<announcements_collection, next_oid, request, response, calls>>

(***************************** concurrent calls **************************)
\* The request dispatcher runs handlers concurrently; each store call is
\* atomic.  list, create and delete make one call on the announcements
\* collection; update makes two, update_one and then find_one.  The teachers
\* collection is never written, so its lookup is taken with the first step.
Procs == {1, 2}

IdleCall == [pc |-> "idle", op |-> "none", announcement_id |-> "",
             status_code |-> 0, wrote |-> FALSE]
Done(op, announcement_id, code, wrote) ==
    [pc |-> "done", op |-> op, announcement_id |-> announcement_id,
     status_code |-> code, wrote |-> wrote]

ConcList(p) ==
    \E active_only \in BOOLEAN :
        LET r == get_announcements(announcements_collection, active_only) IN
        /\ calls[p].pc = "idle"
        /\ announcements_collection' = r.store
        /\ calls' = [calls EXCEPT ![p] = Done("list", "", r.response.status_code, FALSE)]
        /\ UNCHANGED <<next_oid, utcnow, request, response>>

ConcCreate(p) ==
    \E title \in Titles, message \in Messages,
       teacher_username \in Usernames, is_active \in BOOLEAN :
        LET r == create_announcement(announcements_collection, next_oid, utcnow,
                                     title, message, teacher_username, is_active)
            inserted == IF r.response.status_code = 200 THEN 1 ELSE 0
        IN
        /\ calls[p].pc = "idle"
        /\ next_oid + inserted <= MaxCreates
        /\ announcements_collection' = r.store
        /\ next_oid' = next_oid + inserted
        /\ calls' = [calls EXCEPT ![p] =
                        Done("create", "", r.response.status_code, inserted = 1)]
        /\ UNCHANGED <<utcnow, request, response>>

ConcDelete(p) ==
    \E announcement_id \in PathIds, teacher_username \in Usernames :
        LET r == delete_announcement(announcements_collection, announcement_id,
                                     teacher_username)
        IN
        /\ calls[p].pc = "idle"
        /\ announcements_collection' = r.store
        /\ calls' = [calls EXCEPT ![p] =
                        Done("delete", announcement_id, r.response.status_code,
                             r.response.status_code = 200)]
        /\ UNCHANGED <<next_oid, utcnow, request, response>>

\* update, first store call: update_one has been applied when nothing is raised
ConcUpdateWrite(p) ==
    \E announcement_id \in PathIds, teacher_username \in Usernames,
       is_active \in OptBool, title \in OptTitle, message \in OptMessage :
        LET w == update_write(announcements_collection, announcement_id,
                              teacher_username, is_active, title, message)
        IN
        /\ calls[p].pc = "idle"
        /\ announcements_collection' = w.store
        /\ calls' = [calls EXCEPT ![p] =
                        IF IsNone(w.raised)
                        THEN [pc |-> "update_read", op |-> "update",
                              announcement_id |-> announcement_id,
                              status_code |-> 0, wrote |-> TRUE]
                        ELSE Done("update", announcement_id,
                                  w.raised[1].status_code, FALSE)]
        /\ UNCHANGED <<next_oid, utcnow, request, response>>

\* update, second store call: find_one and the response
ConcUpdateRead(p) ==
    /\ calls[p].pc = "update_read"
    /\ calls' = [calls EXCEPT ![p] =
                    Done("update", calls[p].announcement_id,
                         update_read(announcements_collection,
                                     calls[p].announcement_id).status_code,
                         calls[p].wrote)]
    /\ UNCHANGED <<announcements_collection, next_oid, utcnow, request, response>>

\* the response of a finished invocation is delivered
ConcRespond(p) ==
    /\ calls[p].pc = "done"
    /\ calls' = [calls EXCEPT ![p] = IdleCall]
    /\ UNCHANGED <<announcements_collection, next_oid, utcnow, request, response>>

TypeOK ==
    /\ next_oid \in 0..MaxCreates
    /\ utcnow \in 0..MaxClock

Init ==
    /\ announcements_collection = SeedAnnouncements
    /\ next_oid = 0
    /\ utcnow = 0
    /\ request = NoRequest
    /\ response = NoResponse
    /\ calls = [p \in Procs |-> IdleCall]

Next ==
    \/ GetAnnouncements
    \/ CreateAnnouncement
    \/ UpdateAnnouncement
    \/ DeleteAnnouncement
    \/ Respond
    \/ Tick

Spec == Init /\ [][Next]_vars

NextConc ==
    \/ \E p \in Procs :
          \/ ConcList(p)
          \/ ConcCreate(p)
          \/ ConcDelete(p)
          \/ ConcUpdateWrite(p)
          \/ ConcUpdateRead(p)
          \/ ConcRespond(p)
    \/ Tick

SpecConc == Init /\ [][NextConc]_vars
(***************************** the claims ********************************)
\* what the claims say of a call, stated without the handlers' own helpers
NoCredential(u) ==
    \/ u = None
    \/ u = Some("")
    \/ \A t \in teachers_collection : t._id # u[1]

ValidCredential(u) == ~NoCredential(u)

ContentFields == {"title", "message", "created_by", "created_at", "is_active"}
Content(doc) == [k \in ContentFields |-> doc[k]]

\* positions of the announcements stored under the string identifier id
StoredUnder(store, id) ==
    {i \in 1..Len(store) : store[i]._id = [type |-> "str", value |-> id]}

NoFieldSupplied(r) == r.is_active = None /\ r.title = None /\ r.message = None

\* C1: a create, update or delete call whose teacher_username is absent,
\* empty or matches no teacher yields 401 and leaves the announcements store
\* exactly as it was, whatever the other arguments are.
C1_UnauthorizedNeverMutates ==
    [][ ( /\ Idle
          /\ request'.op \in {"create", "update", "delete"}
          /\ NoCredential(request'.teacher_username) )
        => ( /\ response'.status_code = 401
             /\ announcements_collection' = announcements_collection ) ]_vars

C1_Witness ==
    /\ request.op = "update"
    /\ request.teacher_username = Some("nobody")
    /\ NoFieldSupplied(request)
    /\ StoredUnder(announcements_collection, request.announcement_id) = {}
    /\ response.status_code = 401

\* C2: list returns the stored announcements (those with is_active true when
\* active_only is set, all of them otherwise), each exactly once, ordered by
\* created_at descending, and leaves the store unchanged.
C2_ListContract ==
    [][ (Idle /\ request'.op = "list")
        => LET store == announcements_collection
               wanted == {i \in 1..Len(store) :
                             request'.active_only => store[i].is_active = TRUE}
               body == response'.body
           IN  /\ response'.status_code = 200
               /\ announcements_collection' = store
               /\ Len(body) = Cardinality(wanted)
               /\ \E f \in [1..Len(body) -> wanted] :
                     /\ \A i, j \in 1..Len(body) : f[i] = f[j] => i = j
                     /\ \A i \in 1..Len(body) : Content(body[i]) = Content(store[f[i]])
               /\ \A i, j \in 1..Len(body) :
                     i < j => ~StrLess(body[i].created_at, body[j].created_at) ]_vars

C2_Witness ==
    /\ request.op = "list"
    /\ request.active_only
    /\ Len(response.body) = 2
    /\ StrLess(announcements_collection[1].created_at,
               announcements_collection[2].created_at)

\* C3: a create call by a known teacher appends exactly one announcement,
\* leaving the ones stored before unchanged; the new one has the title,
\* message and is_active of the call and the teacher's display_name as
\* created_by, and the response is that record with the identifier the store
\* assigned, rendered as a string.
C3_CreateAddsOne ==
    [][ ( /\ Idle
          /\ request'.op = "create"
          /\ ValidCredential(request'.teacher_username) )
        => LET old == announcements_collection
               new == announcements_collection'
               d == new[Len(new)]
               teacher == CHOOSE t \in teachers_collection :
                              t._id = request'.teacher_username[1]
           IN  /\ Len(new) = Len(old) + 1
               /\ SubSeq(new, 1, Len(old)) = old
               /\ \A i \in 1..Len(old) : old[i]._id # d._id
               /\ d.title = request'.title
               /\ d.message = request'.message
               /\ d.is_active = request'.is_active
               /\ d.created_by = teacher.display_name
               /\ response'.status_code = 200
               /\ Content(response'.body) = Content(d)
               /\ response'.body._id = [type |-> "str", value |-> d._id.value] ]_vars

C3_Witness ==
    /\ request.op = "create"
    /\ request.is_active = FALSE
    /\ response.status_code = 200
    /\ Len(announcements_collection) = 2
    /\ announcements_collection[2].created_by = "Ms. Jones"

\* C4: a successful update changes, on the announcement it targets, only the
\* fields among is_active, title and message that were supplied; the omitted
\* ones, created_by, created_at and the identifier keep their values and no
\* other announcement changes.  Across every step, an announcement that stays
\* stored keeps its created_by and created_at.
C4_UpdateFrame ==
    [][ LET old == announcements_collection
            new == announcements_collection'
        IN  /\ (Idle /\ request'.op = "update" /\ response'.status_code = 200)
               => /\ Len(new) = Len(old)
                  /\ StoredUnder(old, request'.announcement_id) # {}
                  /\ \A i \in 1..Len(old) :
                        IF i \in StoredUnder(old, request'.announcement_id)
                        THEN /\ new[i]._id = old[i]._id
                             /\ new[i].created_by = old[i].created_by
                             /\ new[i].created_at = old[i].created_at
                             /\ new[i].is_active =
                                   IF request'.is_active = None THEN old[i].is_active
                                   ELSE request'.is_active[1]
                             /\ new[i].title =
                                   IF request'.title = None THEN old[i].title
                                   ELSE request'.title[1]
                             /\ new[i].message =
                                   IF request'.message = None THEN old[i].message
                                   ELSE request'.message[1]
                        ELSE new[i] = old[i]
            /\ \A i \in 1..Len(old), j \in 1..Len(new) :
                  old[i]._id = new[j]._id
                  => /\ new[j].created_by = old[i].created_by
                     /\ new[j].created_at = old[i].created_at ]_vars

C4_Witness ==
    /\ request.op = "update"
    /\ request.is_active = Some(FALSE)
    /\ request.title = None
    /\ request.message = None
    /\ response.status_code = 200
    /\ Len(announcements_collection) = 2
    /\ announcements_collection[1].is_active = FALSE
    /\ announcements_collection[1].title = "Exam"
    /\ announcements_collection[1].message = "Math exam Friday"

\* C5: an update by a known teacher with none of is_active, title and message
\* supplied yields 400 and leaves the store unchanged, whether or not the id
\* is stored.
C5_EmptyUpdateRejected ==
    [][ ( /\ Idle
          /\ request'.op = "update"
          /\ ValidCredential(request'.teacher_username)
          /\ NoFieldSupplied(request') )
        => ( /\ response'.status_code = 400
             /\ announcements_collection' = announcements_collection ) ]_vars

C5_Witness ==
    /\ request.op = "update"
    /\ request.teacher_username = Some("t_jones")
    /\ NoFieldSupplied(request)
    /\ StoredUnder(announcements_collection, request.announcement_id) # {}
    /\ response.status_code = 400

\* C6: an update with a field supplied, or a delete, by a known teacher on an
\* id under which nothing is stored yields 404 and leaves the store
\* unchanged; a delete on an id under which an announcement is stored removes
\* exactly that announcement and returns the confirmation.
C6_NotFoundAndDelete ==
    [][ LET old == announcements_collection
            new == announcements_collection'
        IN  /\ ( /\ Idle
                 /\ request'.op \in {"update", "delete"}
                 /\ ValidCredential(request'.teacher_username)
                 /\ request'.op = "update" => ~NoFieldSupplied(request')
                 /\ StoredUnder(old, request'.announcement_id) = {} )
               => (response'.status_code = 404 /\ new = old)
            /\ ( /\ Idle
                 /\ request'.op = "delete"
                 /\ ValidCredential(request'.teacher_username)
                 /\ StoredUnder(old, request'.announcement_id) # {} )
               => /\ response'.status_code = 200
                  /\ response'.body = [message |-> "Announcement deleted successfully"]
                  /\ \E i \in StoredUnder(old, request'.announcement_id) :
                        new = SubSeq(old, 1, i - 1) \o SubSeq(old, i + 1, Len(old))
                  /\ StoredUnder(new, request'.announcement_id) = {} ]_vars

C6_Witness ==
    /\ request.op = "delete"
    /\ request.teacher_username = Some("t_jones")
    /\ request.announcement_id = "a1"
    /\ response.status_code = 404
    /\ Len(announcements_collection) = 1

\* C7: the identifier create returned addresses the announcement: an update
\* with is_active=false by a known teacher on the identifier create returned
\* for an announcement that is still stored succeeds and returns the record
\* with is_active false.
C7_ReturnedIdAddresses ==
    ( /\ request.op = "update"
      /\ ValidCredential(request.teacher_username)
      /\ request.is_active = Some(FALSE)
      /\ request.title = None
      /\ request.message = None
      /\ \E i \in 1..Len(announcements_collection) :
            announcements_collection[i]._id =
                [type |-> "ObjectId", value |-> request.announcement_id] )
    => ( /\ response.status_code = 200
         /\ response.body.is_active = FALSE )

\* C8: under any interleaving, a finished invocation either succeeded or
\* failed with 400, 401 or 404 without having written to the store.
C8_NoPartialSuccess ==
    \A p \in Procs :
        calls[p].pc = "done"
        => \/ calls[p].status_code = 200
           \/ (calls[p].status_code \in {400, 401, 404} /\ ~calls[p].wrote)

\* C9: every stored announcement has a non-empty title.
C9_TitleNonEmpty ==
    \A i \in 1..Len(announcements_collection) :
        announcements_collection[i].title # ""

\* C10: every record list returns, and the record a successful update
\* returns, carries the announcement's identifier.
C10_ReturnedRecordsCarryId ==
    /\ (request.op = "list" /\ response.status_code = 200)
       => \A i \in 1..Len(response.body) : "_id" \in DOMAIN response.body[i]
    /\ (request.op = "update" /\ response.status_code = 200)
       => "_id" \in DOMAIN response.body
====
